---- MODULE Spec2Model ----
(***************************************************************************)
(* A model of the news scraper engine (scrapeNews and the functions it     *)
(* calls).  Strings are TLA+ strings; JavaScript string methods (includes, *)
(* startsWith, toLowerCase, trim) and the regular expressions of the       *)
(* source are operators computed character by character.                   *)
(***************************************************************************)
EXTENDS Integers, Sequences, FiniteSets, TLC

VARIABLES
    mode,         \* which specification is running: "classify", "discover", "sort", "run"
    \* ---- URL classifier (isLikelyArticleUrl) ----
    clsSegs,      \* the path segments the input URL is built from
    clsTrail,     \* whether the path ends with "/"
    clsQuery,     \* the query/fragment suffix of the input URL
    clsUrl,       \* the URL string handed to isLikelyArticleUrl
    clsResult,    \* "pending", "ArticleLike", "ListingLike" or "InvalidUrl"
    \* ---- link discovery (scrapeDynamicSite, lines 95-133) ----
    doc,          \* the anchors of the listing document, in document order
    baseUrl,      \* new URL(url).origin of the listing page
    selIdx,       \* index of the selector being applied; Len(linkSelectors)+1 when
                  \* the loop is over, Len(linkSelectors)+2 once linkObjects is set
    elIdx,        \* index in doc of the last element handed to the .each callback
    foundLinks,   \* the Set foundLinks, in insertion order
    linkObjects,  \* the sliced candidates
    \* ---- the call scrapeNews(targetUrl, keyword, sortBy) ----
    keyword,      \* the keyword argument
    sortBy,       \* the sortBy argument
    engine,       \* the Array.prototype.sort implementation of the runtime
    allArticles,  \* the array allArticles
    returned,     \* the outcomes of the calls made so far: [threw, value, message]
    targetUrl,    \* the targetUrl argument
    web,          \* the fetch capability: the answer given for each URL fetched so far
    clock,        \* the last time read from the system clock
    pc,           \* where the call is: "idle", "adapters", "dynArticle", "dynListing",
                  \* "dynLoop", "ended"
    aggregated,   \* the value given to allArticles at line 23 or 32, before the filter
    apc,          \* per site adapter: "idle", "listing", "fetching", "done", "failed"
    aidx,         \* per site adapter: index in its articleLinks of the awaited fetch
    alinks,       \* per site adapter: its array articleLinks
    aout,         \* per site adapter: its array articles (news for Hacker News)
    outOfOrder,   \* whether an adapter has settled before one that precedes it in
                  \* the array handed to Promise.all
    results       \* the array results of scrapeDynamicSite

clsVars == <<clsSegs, clsTrail, clsQuery, clsUrl, clsResult>>
discVars == <<doc, baseUrl, selIdx, elIdx, foundLinks, linkObjects>>
callVars == <<keyword, sortBy, engine, allArticles, returned>>
runVars == <<targetUrl, web, clock, pc, aggregated, apc, aidx, alinks, aout,
             outOfOrder, results>>
vars == <<mode, clsVars, discVars, callVars, runVars>>

\* the variables of a component that the running specification does not use
DiscIdle ==
    /\ doc = <<>> /\ baseUrl = "" /\ selIdx = 0 /\ elIdx = 0
    /\ foundLinks = <<>> /\ linkObjects = <<>>

ClsIdle ==
    /\ clsSegs = <<>> /\ clsTrail = FALSE /\ clsQuery = "" /\ clsUrl = ""
    /\ clsResult = "pending"

CallIdle ==
    /\ keyword = "" /\ sortBy = "" /\ engine = "" /\ allArticles = <<>>
    /\ returned = <<>>

RunIdle ==
    /\ targetUrl = "" /\ web = <<>> /\ clock = 0 /\ pc = "idle" /\ aggregated = <<>>
    /\ apc = <<>> /\ aidx = <<>> /\ alinks = <<>> /\ aout = <<>>
    /\ outOfOrder = FALSE /\ results = <<>>

(***************************************************************************)
(* JavaScript strings                                                      *)
(***************************************************************************)
Ch(s, i) == SubSeq(s, i, i)

\* String.prototype.includes
Includes(s, sub) ==
    \E i \in 0..(Len(s) - Len(sub)) : SubSeq(s, i + 1, i + Len(sub)) = sub

\* String.prototype.startsWith
StartsWith(s, pre) == Len(s) >= Len(pre) /\ SubSeq(s, 1, Len(pre)) = pre

\* the lower-case form of each upper-case ASCII letter
LowerOf == [
    A |-> "a", B |-> "b", C |-> "c", D |-> "d", E |-> "e", F |-> "f", G |-> "g",
    H |-> "h", I |-> "i", J |-> "j", K |-> "k", L |-> "l", M |-> "m", N |-> "n",
    O |-> "o", P |-> "p", Q |-> "q", R |-> "r", S |-> "s", T |-> "t", U |-> "u",
    V |-> "v", W |-> "w", X |-> "x", Y |-> "y", Z |-> "z" ]

LowerChar(c) == IF c \in DOMAIN LowerOf THEN LowerOf[c] ELSE c

\* String.prototype.toLowerCase
RECURSIVE ToLower(_)
ToLower(s) ==
    IF Len(s) = 0 THEN ""
    ELSE LowerChar(Ch(s, 1)) \o ToLower(SubSeq(s, 2, Len(s)))

\* the regular expression class \d
IsDigit(c) == c \in {"0", "1", "2", "3", "4", "5", "6", "7", "8", "9"}

\* index of the first character of s (from position `from`) that is in `stops`,
\* or Len(s) + 1 when there is none
RECURSIVE FirstOf(_, _, _)
FirstOf(s, stops, from) ==
    IF from > Len(s) THEN Len(s) + 1
    ELSE IF Ch(s, from) \in stops THEN from
    ELSE FirstOf(s, stops, from + 1)

(***************************************************************************)
(* new URL(url): the WHATWG parser restricted to the URLs the model uses   *)
(* (http/https, no credentials, ports, dot segments or escapes).           *)
(***************************************************************************)
SchemeOf(url) ==
    IF StartsWith(url, "https://") THEN "https://"
    ELSE IF StartsWith(url, "http://") THEN "http://"
    ELSE ""

HostEnd(url) == FirstOf(url, {"/", "?", "#"}, Len(SchemeOf(url)) + 1)

\* new URL(url) throws TypeError (Invalid URL) when this is FALSE
ValidUrl(url) == SchemeOf(url) # "" /\ HostEnd(url) > Len(SchemeOf(url)) + 1

\* new URL(url).hostname (lower-cased by the parser)
Hostname(url) == ToLower(SubSeq(url, Len(SchemeOf(url)) + 1, HostEnd(url) - 1))

\* new URL(url).origin
Origin(url) == SchemeOf(url) \o Hostname(url)

\* new URL(url).pathname
Pathname(url) ==
    LET from == HostEnd(url)
        to   == FirstOf(url, {"?", "#"}, from) - 1
        p    == SubSeq(url, from, to)
    IN IF p = "" THEN "/" ELSE p

(***************************************************************************)
(* isLikelyArticleUrl                                                      *)
(***************************************************************************)
\* pathname.match(/\/202\d\/\d{2}\/\d{2}\//)
MatchesDatedPath(p) ==
    \E i \in 1..(Len(p) - 11) :
        /\ SubSeq(p, i, i + 3) = "/202"
        /\ IsDigit(Ch(p, i + 4))
        /\ Ch(p, i + 5) = "/"
        /\ IsDigit(Ch(p, i + 6)) /\ IsDigit(Ch(p, i + 7))
        /\ Ch(p, i + 8) = "/"
        /\ IsDigit(Ch(p, i + 9)) /\ IsDigit(Ch(p, i + 10))
        /\ Ch(p, i + 11) = "/"

ArticleWords == {"news", "story", "article", "post", "politics", "tech", "business"}

\* pathname.match(/\/(news|story|article|post|politics|tech|business)\//i)
MatchesArticleWord(p) ==
    \E w \in ArticleWords : Includes(ToLower(p), "/" \o w \o "/")

\* a plausible slip: the word need not be followed by "/"
isLikelyArticleUrlNoSlash(url) ==
    LET pathname == Pathname(url)
    IN \/ Includes(pathname, "/articles/")
       \/ MatchesDatedPath(pathname)
       \/ \E w \in ArticleWords : Includes(ToLower(pathname), "/" \o w)

\* precondition: ValidUrl(url) (otherwise new URL throws)
isLikelyArticleUrl(url) ==
    LET pathname == Pathname(url)
    IN \/ Includes(pathname, "/articles/")
       \/ MatchesDatedPath(pathname)
       \/ MatchesArticleWord(pathname)

(***************************************************************************)
(* Link discovery: the selector loop of scrapeDynamicSite                  *)
(***************************************************************************)
Digits == "0123456789"

\* decimal rendering of a natural number (template literals, String(i))
RECURSIVE Str(_)
Str(n) == IF n < 10 THEN Ch(Digits, n + 1)
          ELSE Str(n \div 10) \o Ch(Digits, (n % 10) + 1)

RECURSIVE TrimLeft(_)
TrimLeft(s) == IF Len(s) > 0 /\ Ch(s, 1) = " " THEN TrimLeft(SubSeq(s, 2, Len(s))) ELSE s
RECURSIVE TrimRight(_)
TrimRight(s) ==
    IF Len(s) > 0 /\ Ch(s, Len(s)) = " " THEN TrimRight(SubSeq(s, 1, Len(s) - 1)) ELSE s
\* String.prototype.trim
Trim(s) == TrimRight(TrimLeft(s))

\* $(el).attr("href") of an anchor without the attribute: undefined, written as
\* a string no attribute of the model's documents equals
NoHref == "<undefined>"

\* An anchor of a document: its href attribute (or NoHref), its text, and the
\* structural contexts it sits in: a subset of {"article", "h2", "h3", "headline"}.
Anchor(href, text, ctx) == [href |-> href, text |-> text, ctx |-> ctx]

\* linkSelectors: hrefPart is the [href*="..."] test, ctx the ancestor test
linkSelectors == <<
    [hrefPart |-> "/article", ctx |-> ""],
    [hrefPart |-> "/news",    ctx |-> ""],
    [hrefPart |-> "/story",   ctx |-> ""],
    [hrefPart |-> "/202",     ctx |-> ""],
    [hrefPart |-> "",         ctx |-> "article"],
    [hrefPart |-> "",         ctx |-> "h2"],
    [hrefPart |-> "",         ctx |-> "h3"],
    [hrefPart |-> "",         ctx |-> "headline"] >>

\* whether $(selector) selects the anchor
SelectorMatches(sel, a) ==
    IF sel.hrefPart # ""
    THEN a.href # NoHref /\ Includes(a.href, sel.hrefPart)
    ELSE sel.ctx \in a.ctx

\* new URL(href, baseUrl).href, baseUrl being an origin
Resolve(href, base) ==
    IF StartsWith(href, "//") THEN SubSeq(SchemeOf(base), 1, Len(SchemeOf(base)) - 2) \o href
    ELSE IF StartsWith(href, "/") THEN base \o href
    ELSE base \o "/" \o href

RawCap == 10
SliceCap == 8
MinTextLen == 10

\* a plausible slip: the "tag" test left out
KeepLinkNoTag(href, text) ==
    /\ href # NoHref /\ href # ""
    /\ Len(text) > MinTextLen
    /\ ~Includes(href, "mailto")

\* the condition of lines 117-122
KeepLink(href, text) ==
    /\ href # NoHref /\ href # ""
    /\ Len(text) > MinTextLen
    /\ ~Includes(href, "tag")
    /\ ~Includes(href, "mailto")

\* foundLinks.add(JSON.stringify({url, title})): JSON.stringify is injective on
\* such objects, so the Set of strings is a duplicate-free list of pairs.
SetAdd(found, e) ==
    IF \E i \in 1..Len(found) : found[i] = e THEN found ELSE Append(found, e)

\* the body of the .each callback (lines 112-127) for element a
EachLink(found, a, base) ==
    IF Len(found) >= RawCap THEN found
    ELSE LET href == a.href
             text == Trim(a.text)
         IN IF KeepLink(href, text)
            THEN LET fullUrl == IF StartsWith(href, "http") THEN href
                                ELSE Resolve(href, base)
                 IN SetAdd(found, [url |-> fullUrl, title |-> text])
            ELSE found

\* index of the next element of d after position i that selector s selects (0: none)
NextMatch(d, s, i) ==
    IF \E j \in (i + 1)..Len(d) : SelectorMatches(linkSelectors[s], d[j])
    THEN CHOOSE j \in (i + 1)..Len(d) :
            /\ SelectorMatches(linkSelectors[s], d[j])
            /\ \A k \in (i + 1)..(j - 1) : ~SelectorMatches(linkSelectors[s], d[k])
    ELSE 0

\* Array.from(foundLinks).slice(0, 8).map(JSON.parse)
SliceLinks(found) ==
    SubSeq(found, 1, IF Len(found) < SliceCap THEN Len(found) ELSE SliceCap)

\* the whole selector loop, from selector s and element position i on
RECURSIVE DiscoverFrom(_, _, _, _, _)
DiscoverFrom(d, base, s, i, found) ==
    IF s > Len(linkSelectors) THEN found
    ELSE LET j == NextMatch(d, s, i)
         IN IF j = 0 THEN DiscoverFrom(d, base, s + 1, 0, found)
            ELSE DiscoverFrom(d, base, s, j, EachLink(found, d[j], base))

\* lines 108-133: the candidates of a listing document
Discover(d, base) == SliceLinks(DiscoverFrom(d, base, 1, 0, <<>>))

(***************************************************************************)
(* Documents of the model                                                  *)
(***************************************************************************)
StoryAnchor(i) == Anchor("/story/" \o Str(i), "Story number " \o Str(i), {"h2"})

RECURSIVE Stories(_)
Stories(n) == IF n = 0 THEN <<>> ELSE Append(Stories(n - 1), StoryAnchor(n))

SpecialAnchors == [
    mailto   |-> Anchor("mailto:desk@site.com", "Contact the news desk", {"article"}),
    tag      |-> Anchor("/news/tag/politics", "More politics stories", {}),
    short    |-> Anchor("/news/1", "Top story", {"h3"}),
    abs      |-> Anchor("https://other.org/article/9", "  An external article  ", {"h3"}),
    retitled |-> Anchor("/story/1", "Story one, once more", {"headline"}) ]

SpecialNames == DOMAIN SpecialAnchors

Opt(names, n) == IF n \in names THEN <<SpecialAnchors[n]>> ELSE <<>>

\* a document: an anchor without href, the chosen special anchors, n story anchors
DocOf(names, n) ==
    <<Anchor(NoHref, "Skip to main content", {"h2"})>>
    \o Opt(names, "mailto") \o Opt(names, "tag") \o Opt(names, "short")
    \o Opt(names, "abs") \o Stories(n) \o Opt(names, "retitled")

(***************************************************************************)
(* Specification SpecDiscover: the selector loop, one callback per step    *)
(***************************************************************************)
MaxStories == 10
Origins == {"https://site.com", "https://heritage.org"}

DiscoverInit ==
    /\ mode = "discover"
    /\ \E names \in SUBSET SpecialNames, n \in 0..MaxStories : doc = DocOf(names, n)
    /\ baseUrl \in Origins
    /\ selIdx = 1 /\ elIdx = 0
    /\ foundLinks = <<>> /\ linkObjects = <<>>
    /\ ClsIdle /\ CallIdle /\ RunIdle

\* one invocation of the .each callback
EachCallback ==
    /\ mode = "discover" /\ selIdx \in 1..Len(linkSelectors)
    /\ NextMatch(doc, selIdx, elIdx) # 0
    /\ elIdx' = NextMatch(doc, selIdx, elIdx)
    /\ foundLinks' = EachLink(foundLinks, doc[elIdx'], baseUrl)
    /\ UNCHANGED <<mode, clsVars, callVars, runVars, doc, baseUrl, selIdx, linkObjects>>

\* $(selector).each is over: forEach moves to the next selector
NextSelector ==
    /\ mode = "discover" /\ selIdx \in 1..Len(linkSelectors)
    /\ NextMatch(doc, selIdx, elIdx) = 0
    /\ selIdx' = selIdx + 1 /\ elIdx' = 0
    /\ UNCHANGED <<mode, clsVars, callVars, runVars, doc, baseUrl, foundLinks, linkObjects>>

\* lines 131-133
TakeLinks ==
    /\ mode = "discover" /\ selIdx = Len(linkSelectors) + 1
    /\ linkObjects' = SliceLinks(foundLinks)
    /\ selIdx' = selIdx + 1
    /\ UNCHANGED <<mode, clsVars, callVars, runVars, doc, baseUrl, elIdx, foundLinks>>

DiscoverDone == mode = "discover" /\ selIdx = Len(linkSelectors) + 2

DiscoverNext == EachCallback \/ NextSelector \/ TakeLinks
SpecDiscover == DiscoverInit /\ [][DiscoverNext]_vars

(***************************************************************************)
(* Article records, the keyword filter and the two sorts of scrapeNews     *)
(***************************************************************************)
Article(title, link, author, publicationDate, source) ==
    [title |-> title, link |-> link, author |-> author,
     publicationDate |-> publicationDate, source |-> source]

\* lines 36-44: the keyword filter
MatchesKeyword(article, kw) ==
    LET lowerCaseKeyword == ToLower(kw)
    IN \/ Includes(ToLower(article.title), lowerCaseKeyword)
       \/ Includes(ToLower(article.author), lowerCaseKeyword)
       \/ Includes(ToLower(article.source), lowerCaseKeyword)

FilterByKeyword(articles, kw) ==
    IF kw = "" THEN articles
    ELSE SelectSeq(articles, LAMBDA a : MatchesKeyword(a, kw))

\* the value of a run of decimal digits
RECURSIVE DigitsValue(_)
DigitsValue(s) ==
    IF Len(s) = 0 THEN 0
    ELSE 10 * DigitsValue(SubSeq(s, 1, Len(s) - 1))
         + (CHOOSE d \in 0..9 : Ch(Digits, d + 1) = Ch(s, Len(s)))

AllDigits(s) == \A i \in 1..Len(s) : IsDigit(Ch(s, i))

NaN == -1

\* new Date(s).getTime() for the date strings of the model: "YYYY-MM-DD",
\* alone or followed by "T..." (an ISO timestamp), gives a time that grows with
\* the date (here a day count; every timestamp of the model is at midnight);
\* any other string gives NaN.
DateValue(s) ==
    IF /\ Len(s) >= 10
       /\ AllDigits(SubSeq(s, 1, 4)) /\ Ch(s, 5) = "-"
       /\ AllDigits(SubSeq(s, 6, 7)) /\ Ch(s, 8) = "-"
       /\ AllDigits(SubSeq(s, 9, 10))
       /\ (Len(s) = 10 \/ Ch(s, 11) = "T")
    THEN (DigitsValue(SubSeq(s, 1, 4)) * 12 + DigitsValue(SubSeq(s, 6, 7))) * 31
         + DigitsValue(SubSeq(s, 9, 10))
    ELSE NaN

\* lines 48-55: the comparator of the date sort
CompareDate(a, b) ==
    LET dateA == DateValue(a.publicationDate)
        dateB == DateValue(b.publicationDate)
    IN IF dateA = NaN THEN 1
       ELSE IF dateB = NaN THEN -1
       ELSE dateB - dateA

\* lines 58-69: the comparator of the relevance sort
CompareRelevance(a, b, kw) ==
    LET lowerCaseKeyword == ToLower(kw)
        aHasKeywordInTitle == Includes(ToLower(a.title), lowerCaseKeyword)
        bHasKeywordInTitle == Includes(ToLower(b.title), lowerCaseKeyword)
    IN IF aHasKeywordInTitle /\ ~bHasKeywordInTitle THEN -1
       ELSE IF ~aHasKeywordInTitle /\ bHasKeywordInTitle THEN 1
       ELSE 0

\* a plausible slip: the two results of the relevance comparator exchanged
CompareSwapped(kind, kw, a, b) ==
    IF kind = "date" THEN CompareDate(a, b) ELSE CompareRelevance(b, a, kw)

\* the comparator handed to allArticles.sort for sortBy = kind
Compare(kind, kw, a, b) ==
    IF kind = "date" THEN CompareDate(a, b) ELSE CompareRelevance(a, b, kw)

(***************************************************************************)
(* Array.prototype.sort.  ECMAScript fixes the result only for a           *)
(* consistent comparator; for any other the order is implementation-       *)
(* defined.  Two implementations are modelled: V8's TimSort (arrays        *)
(* shorter than 64 elements: one run, extended by binary insertion) and    *)
(* the classic linear insertion sort.                                      *)
(***************************************************************************)
SortEngines == {"timsort", "insertion"}

\* arr with the element at position `from` moved to position `to` (to <= from),
\* the elements between shifted right
MoveLeft(arr, from, to) ==
    [i \in 1..Len(arr) |->
        IF i < to \/ i > from THEN arr[i]
        ELSE IF i = to THEN arr[from]
        ELSE arr[i - 1]]

\* binary search of TimSort's BinaryInsertionSort: the position (0-based) at
\* which the pivot is inserted in arr[left..right)
RECURSIVE BinarySearch(_, _, _, _, _, _)
BinarySearch(kind, kw, arr, pivot, left, right) ==
    IF left >= right THEN left
    ELSE LET mid == left + ((right - left) \div 2)
             order == Compare(kind, kw, pivot, arr[mid + 1])
         IN IF order < 0 THEN BinarySearch(kind, kw, arr, pivot, left, mid)
            ELSE BinarySearch(kind, kw, arr, pivot, mid + 1, right)

\* BinaryInsertionSort(low = 0, start, high = length): start is 0-based
RECURSIVE BinaryInsertionSort(_, _, _, _)
BinaryInsertionSort(kind, kw, arr, start) ==
    IF start >= Len(arr) THEN arr
    ELSE LET left == BinarySearch(kind, kw, arr, arr[start + 1], 0, start)
         IN BinaryInsertionSort(kind, kw, MoveLeft(arr, start + 1, left + 1), start + 1)

\* CountAndMakeRun: the length of the run that starts the array; idx (0-based)
\* is the element compared with its predecessor
RECURSIVE RunLength(_, _, _, _, _)
RunLength(kind, kw, arr, isDescending, idx) ==
    IF idx >= Len(arr) THEN idx
    ELSE LET order == Compare(kind, kw, arr[idx + 1], arr[idx])
         IN IF isDescending
            THEN IF order >= 0 THEN idx
                 ELSE RunLength(kind, kw, arr, isDescending, idx + 1)
            ELSE IF order < 0 THEN idx
                 ELSE RunLength(kind, kw, arr, isDescending, idx + 1)

ReverseRange(arr, n) ==
    [i \in 1..Len(arr) |-> IF i <= n THEN arr[n + 1 - i] ELSE arr[i]]

TimSort(kind, kw, arr) ==
    IF Len(arr) < 2 THEN arr
    ELSE LET isDescending == Compare(kind, kw, arr[2], arr[1]) < 0
             run == RunLength(kind, kw, arr, isDescending, 2)
             made == IF isDescending THEN ReverseRange(arr, run) ELSE arr
         IN BinaryInsertionSort(kind, kw, made, run)

\* linear insertion: the element at position i (1-based) moves left past every
\* element that compares greater than it
RECURSIVE InsertionPoint(_, _, _, _, _)
InsertionPoint(kind, kw, arr, element, j) ==
    IF j >= 1 /\ Compare(kind, kw, arr[j], element) > 0
    THEN InsertionPoint(kind, kw, arr, element, j - 1)
    ELSE j + 1

RECURSIVE InsertionSort(_, _, _, _)
InsertionSort(kind, kw, arr, i) ==
    IF i > Len(arr) THEN arr
    ELSE InsertionSort(kind, kw,
            MoveLeft(arr, i, InsertionPoint(kind, kw, arr, arr[i], i - 1)), i + 1)

ArraySort(eng, kind, kw, arr) ==
    IF eng = "timsort" THEN TimSort(kind, kw, arr)
    ELSE InsertionSort(kind, kw, arr, 2)

\* lines 47-70
SortArticles(eng, articles, kw, by) ==
    IF by = "date" THEN ArraySort(eng, "date", kw, articles)
    ELSE IF by = "relevance" /\ kw # "" THEN ArraySort(eng, "relevance", kw, articles)
    ELSE articles

\* the outcome of a call of an async function: resolved with a value, or rejected
Returns(v) == [threw |-> FALSE, value |-> v, message |-> ""]
Throws(m) == [threw |-> TRUE, value |-> <<>>, message |-> m]

\* lines 35-72: what scrapeNews returns for the aggregated articles
FilterAndSort(eng, articles, kw, by) ==
    SortArticles(eng, FilterByKeyword(articles, kw), kw, by)

(***************************************************************************)
(* Specification SpecSort: filter and sort on bounded arrays of records    *)
(***************************************************************************)
MaxRecs == 3

RecPool == {
    Article("AI breakthrough", "https://a.com/1", "Ann", "2024-01-01", "A"),
    Article("Markets fall", "https://a.com/2", "Aiko", "Unknown", "A"),
    Article("Rain again", "https://b.com/3", "Bob", "2024-06-01", "Air Mail"),
    Article("Paint dries", "https://b.com/4", "Unknown", "3 hours ago", "B"),
    Article("Chess final", "https://c.com/5", "Cy", "2024-01-01", "C") }

Keywords == {"", "ai"}
SortBys == {"default", "date", "relevance"}

SortInit ==
    /\ mode = "sort"
    /\ allArticles \in UNION {[1..n -> RecPool] : n \in 0..MaxRecs}
    /\ keyword \in Keywords
    /\ sortBy \in SortBys
    /\ engine \in SortEngines
    /\ returned = <<>>
    /\ ClsIdle /\ DiscIdle /\ RunIdle

\* lines 35-72 applied to the array
ApplyFilterAndSort ==
    /\ mode = "sort" /\ returned = <<>>
    /\ returned' = <<Returns(FilterAndSort(engine, allArticles, keyword, sortBy))>>
    /\ UNCHANGED <<mode, clsVars, discVars, runVars, keyword, sortBy, engine, allArticles>>

SortNext == ApplyFilterAndSort
SpecSort == SortInit /\ [][SortNext]_vars

(***************************************************************************)
(* Specification SpecClassify: isLikelyArticleUrl on bounded URLs          *)
(***************************************************************************)
MaxSegs == 3

SegPool == {"articles", "news", "Tech", "2024", "2019", "05", "5", "section"}
QueryPool == {"", "?ref=/news/x"}
UrlHeads == {"https://site.com", "site.com"}

RECURSIVE JoinSegs(_)
JoinSegs(segs) ==
    IF Len(segs) = 0 THEN ""
    ELSE "/" \o Head(segs) \o JoinSegs(Tail(segs))

BuildUrl(head, segs, trail, query) ==
    head \o JoinSegs(segs) \o (IF trail THEN "/" ELSE "") \o query

SegSeqs == UNION {[1..n -> SegPool] : n \in 0..MaxSegs}

ClassifyInit ==
    /\ mode = "classify"
    /\ clsSegs \in SegSeqs
    /\ clsTrail \in BOOLEAN
    /\ clsQuery \in QueryPool
    /\ \E head \in UrlHeads : clsUrl = BuildUrl(head, clsSegs, clsTrail, clsQuery)
    /\ clsResult = "pending"
    /\ DiscIdle /\ CallIdle /\ RunIdle

Classify ==
    /\ mode = "classify"
    /\ clsResult = "pending"
    /\ clsResult' = IF ~ValidUrl(clsUrl) THEN "InvalidUrl"
                    ELSE IF isLikelyArticleUrl(clsUrl) THEN "ArticleLike"
                    ELSE "ListingLike"
    /\ UNCHANGED <<mode, clsSegs, clsTrail, clsQuery, clsUrl, discVars, callVars, runVars>>

ClassifyNext == Classify
SpecClassify == ClassifyInit /\ [][ClassifyNext]_vars

(***************************************************************************)
(* The fetch capability (axios.get) and the system clock                   *)
(***************************************************************************)
Fail == [ok |-> FALSE, body |-> <<>>, message |-> "Request failed with status code 503"]
Ok(body) == [ok |-> TRUE, body |-> body, message |-> ""]

\* the answers a fetch of url can get: the one already given for it, if any
\* (the capability answers a URL the same way every time), else any of `fresh`
Answers(url, fresh) == IF url \in DOMAIN web THEN {web[url]} ELSE fresh

Learn(url, ans) == IF url \in DOMAIN web THEN web ELSE web @@ (url :> ans)

MaxClock == 1

\* new Date().toISOString() at time t (a day count from 2026-11-01)
ToISOString(t) == "2026-11-0" \o Str(t + 1) \o "T00:00:00.000Z"

(***************************************************************************)
(* scrapeArticleDetails                                                    *)
(***************************************************************************)
RECURSIVE FirstNonEmpty(_)
\* a || b || ... on strings (undefined is written "")
FirstNonEmpty(values) ==
    IF Len(values) = 1 \/ Head(values) # "" THEN Head(values)
    ELSE FirstNonEmpty(Tail(values))

\* lines 189-228: the fallback chains, on the parsed article page
ExtractFields(page, articleUrl, fallbackTitle, siteName) ==
    LET title == FirstNonEmpty(<<page.headlineText, page.ogTitle, page.twitterTitle,
                                 page.titleTag, page.h1, fallbackTitle, "No title">>)
        author == FirstNonEmpty(<<page.bylineName, page.metaAuthor, page.articleAuthor,
                                  page.authorClass, page.authorLike, "Unknown">>)
        publicationDate ==
            FirstNonEmpty(<<page.subDescription, page.publishedTime, page.publishDate,
                            page.metaDate, page.timeDatetime, page.timeText,
                            page.dateClass, page.dateLike, "Unknown">>)
        source == FirstNonEmpty(<<page.ogSiteName, siteName, "Unknown">>)
    IN Article(Trim(title), articleUrl, Trim(author), Trim(publicationDate), Trim(source))

\* The try block starts (lines 174-177) by calling $, the const that line 186 of
\* the same block declares: the read is in the temporal dead zone and throws a
\* ReferenceError before axios.get is reached.  The catch block (lines 230-237)
\* reads title, author, publicationDate and source, which are scoped to the
\* try block: its first read throws a ReferenceError, which rejects the promise.
\* Lines 179-228 are never reached.
scrapeArticleDetails(articleUrl, fallbackTitle, siteName) ==
    LET tryBlock == Throws("Cannot access '$' before initialization")
        catchBlock == Throws("title is not defined")
    IN IF tryBlock.threw THEN catchBlock ELSE tryBlock

(***************************************************************************)
(* scrapeDynamicSite                                                       *)
(***************************************************************************)
\* lines 158-167: the synthetic record of the outer catch
ErrorRecord(url, t, message) ==
    [title |-> "Error scraping " \o url, link |-> url, author |-> "System",
     publicationDate |-> ToISOString(t), source |-> "Error", error |-> message]

\* lines 145-151: the record pushed when scrapeArticleDetails rejects
DegradedRecord(linkObj, siteName) ==
    Article(linkObj.title, linkObj.url, "Unknown", "Unknown", siteName)

(***************************************************************************)
(* The site adapters                                                       *)
(***************************************************************************)
AdapterCap == 5

\* in the order of the Promise.all of lines 26-31
Adapters == <<"bbc", "verge", "cnn", "hacker">>
AdapterSet == {Adapters[i] : i \in 1..Len(Adapters)}
ArticleAdapters == {"bbc", "verge", "cnn"}

\* per adapter: the listing URL, the prefix of relative links, the substrings
\* that exclude a link, and the defaults of author and source
Sites == [
    bbc    |-> [home |-> "https://www.bbc.com/news", prefix |-> "https://www.bbc.com",
                excluded |-> {"/live/", "#"}, author |-> "BBC News", source |-> "BBC News"],
    verge  |-> [home |-> "https://www.theverge.com/", prefix |-> "https://www.theverge.com",
                excluded |-> {}, author |-> "Unknown", source |-> "The Verge"],
    cnn    |-> [home |-> "https://edition.cnn.com/", prefix |-> "https://edition.cnn.com",
                excluded |-> {}, author |-> "CNN", source |-> "CNN"],
    hacker |-> [home |-> "https://news.ycombinator.com/", prefix |-> "",
                excluded |-> {}, author |-> "Unknown", source |-> "Unknown"] ]

InSeq(x, seq) == \E i \in 1..Len(seq) : seq[i] = x

\* the .each callback that fills articleLinks (lines 250-265, 299-309, 343-353),
\* over the hrefs of the selected anchors
RECURSIVE CollectLinks(_, _, _)
CollectLinks(site, hrefs, articleLinks) ==
    IF hrefs = <<>> THEN articleLinks
    ELSE LET link == Head(hrefs)
             keep == /\ link # NoHref /\ link # ""
                     /\ \A x \in site.excluded : ~Includes(link, x)
                     /\ Len(articleLinks) < AdapterCap
             fullUrl == IF StartsWith(link, "http") THEN link ELSE site.prefix \o link
         IN CollectLinks(site, Tail(hrefs),
                IF keep /\ ~InSeq(fullUrl, articleLinks)
                THEN Append(articleLinks, fullUrl) ELSE articleLinks)

\* lines 272-281, 316-325, 360-369: the record of a fetched article page;
\* page.author is the adapter's author meta tag (byl for the BBC)
AdapterRecord(site, link, page) ==
    Article(FirstNonEmpty(<<page.ogTitle, "No title">>),
            link,
            FirstNonEmpty(<<page.author, site.author>>),
            FirstNonEmpty(<<page.publishedTime, "Unknown">>),
            FirstNonEmpty(<<page.ogSiteName, site.source>>))

\* lines 385-401: the record of one .athing row; link is the raw href
HackerRecord(row, url) ==
    LET link == row.href
        site == IF link # NoHref /\ link # ""
                THEN Hostname(IF StartsWith(link, "http") THEN link
                              ELSE Resolve(link, Origin(url)))
                ELSE "Unknown"
    IN Article(row.title, link,
               FirstNonEmpty(<<row.user, "Unknown">>),
               FirstNonEmpty(<<row.age, "Unknown">>),
               site)

\* lines 385-403
HackerNews(rows, url) ==
    LET news == [i \in 1..Len(rows) |-> HackerRecord(rows[i], url)]
    IN SubSeq(news, 1, IF Len(news) < AdapterCap THEN Len(news) ELSE AdapterCap)

\* a plausible slip: the destructuring of line 26 in another order than the calls
ConcatSwapped(outs) == outs["verge"] \o outs["bbc"] \o outs["cnn"] \o outs["hacker"]

\* line 32
ConcatAdapters(outs) == outs["bbc"] \o outs["verge"] \o outs["cnn"] \o outs["hacker"]

(***************************************************************************)
(* The pages of the model                                                  *)
(***************************************************************************)
MaxLinks == 1

\* the hrefs of the anchors an adapter's selector finds on its listing page
\* with n article links (the BBC page also links a live page and repeats its
\* first article with an absolute URL)
HomeHrefs(a, n) ==
    LET path == [bbc |-> "/news/articles/c", verge |-> "/tech/review-",
                 cnn |-> "/2024/05/01/world/story-", hacker |-> ""]
        links == [i \in 1..n |-> path[a] \o Str(i)]
    IN IF a = "bbc" /\ n > 0
       THEN <<"/news/live/c0">> \o links \o <<Sites[a].prefix \o links[1]>>
       ELSE links

\* The article pages: those of the BBC carry every meta tag the adapter reads,
\* those of The Verge lack the author and the site name, those of CNN carry no
\* meta tag at all.  The last character of an article URL is a digit.
ArticlePage(a, url) ==
    [ogTitle       |-> IF a = "cnn" THEN "" ELSE "Headline of " \o url,
     author        |-> IF a = "bbc" THEN "Staff writer" ELSE "",
     publishedTime |-> IF a = "cnn" THEN "" ELSE "2024-05-0" \o Ch(url, Len(url)),
     ogSiteName    |-> IF a = "bbc" THEN "BBC" ELSE ""]

FullRow(i) == [title |-> "Show HN: project " \o Str(i), href |-> "item?id=" \o Str(i),
               user |-> "pg", age |-> Str(i) \o " hours ago"]
UntitledRow == [title |-> "", href |-> NoHref, user |-> "", age |-> ""]

HackerRows(kinds) ==
    [i \in 1..Len(kinds) |-> IF kinds[i] = "full" THEN FullRow(i) ELSE UntitledRow]

HomeOutcomes(a) ==
    {Fail} \cup
    (IF a = "hacker"
     THEN {Ok(HackerRows(kinds)) :
              kinds \in UNION {[1..n -> {"full", "untitled"}] : n \in 0..MaxLinks}}
     ELSE {Ok(HomeHrefs(a, n)) : n \in 0..MaxLinks})

ArticleOutcomes(a, url) == {Fail, Ok(ArticlePage(a, url))}

ListingOutcomes ==
    {Fail} \cup {Ok(DocOf(names, n)) : names \in {{}, {"tag", "retitled"}}, n \in 0..MaxLinks}

(***************************************************************************)
(* Specification Spec: one call of scrapeNews                              *)
(***************************************************************************)
TargetUrls == {"", "https://site.com/", "https://site.com/news/a1", "site.com"}
\* the (keyword, sortBy) arguments of the calls
RunArgs == {<<"", "default">>, <<"", "date">>, <<"bbc", "date">>, <<"bbc", "relevance">>}

Init ==
    /\ mode = "run"
    /\ targetUrl \in TargetUrls
    /\ \E args \in RunArgs : keyword = args[1] /\ sortBy = args[2]
    /\ engine \in SortEngines
    /\ allArticles = <<>> /\ returned = <<>>
    /\ web = <<>> /\ clock = 0 /\ pc = "idle" /\ aggregated = <<>>
    /\ apc = [a \in AdapterSet |-> "idle"]
    /\ aidx = [a \in AdapterSet |-> 0]
    /\ alinks = [a \in AdapterSet |-> <<>>]
    /\ aout = [a \in AdapterSet |-> <<>>]
    /\ outOfOrder = FALSE /\ results = <<>>
    /\ ClsIdle /\ DiscIdle

\* the continuation of the await of line 22 or 26: allArticles is assigned
\* (line 23 or 32), then filtered, sorted and returned (lines 35-72)
ReturnArticles(articles) ==
    /\ aggregated' = articles
    /\ allArticles' = FilterAndSort(engine, articles, keyword, sortBy)
    /\ returned' = Append(returned, Returns(allArticles'))
    /\ pc' = "ended"

\* the outer catch of scrapeDynamicSite (lines 157-168) resolves it with one
\* error record, stamped with the time read from the clock
ReturnError(message) ==
    \E t \in clock..MaxClock :
        /\ clock' = t
        /\ ReturnArticles(<<ErrorRecord(targetUrl, t, message)>>)

\* scrapeNews() with no target: lines 26-31 start the four adapters, each of
\* which issues the GET of its listing page
CallDefault ==
    /\ mode = "run" /\ pc = "idle" /\ targetUrl = ""
    /\ pc' = "adapters"
    /\ apc' = [a \in AdapterSet |-> "listing"]
    /\ aidx' = [a \in AdapterSet |-> 0]
    /\ alinks' = [a \in AdapterSet |-> <<>>]
    /\ aout' = [a \in AdapterSet |-> <<>>]
    /\ outOfOrder' = FALSE
    /\ UNCHANGED <<mode, clsVars, discVars, callVars, targetUrl, web, clock, aggregated,
                   results>>

\* scrapeNews(targetUrl): scrapeDynamicSite up to its first await (lines 77-93)
CallDynamic ==
    /\ mode = "run" /\ pc = "idle" /\ targetUrl # ""
    /\ IF ~ValidUrl(targetUrl)
       THEN ReturnError("Invalid URL")
       ELSE /\ pc' = IF isLikelyArticleUrl(targetUrl) THEN "dynArticle" ELSE "dynListing"
            /\ UNCHANGED <<clock, allArticles, returned, aggregated>>
    /\ UNCHANGED <<mode, clsVars, discVars, keyword, sortBy, engine,
                   targetUrl, web, apc, aidx, alinks, aout, outOfOrder, results>>

\* lines 82-87: the await of scrapeArticleDetails for an article URL settles
DynArticle ==
    /\ mode = "run" /\ pc = "dynArticle"
    /\ LET r == scrapeArticleDetails(targetUrl, "Single Article", Hostname(targetUrl))
       IN IF r.threw
          THEN ReturnError(r.message)
          ELSE /\ ReturnArticles(<<r.value>>)
               /\ UNCHANGED clock
    /\ UNCHANGED <<mode, clsVars, discVars, keyword, sortBy, engine,
                   targetUrl, web, apc, aidx, alinks, aout, outOfOrder, results>>

\* lines 90-134: the listing page is answered; on success the links are discovered
DynListing ==
    /\ mode = "run" /\ pc = "dynListing"
    /\ \E ans \in Answers(targetUrl, ListingOutcomes) :
          /\ web' = Learn(targetUrl, ans)
          /\ IF ans.ok
             THEN /\ linkObjects' = Discover(ans.body, Origin(targetUrl))
                  /\ results' = <<>>
                  /\ pc' = "dynLoop"
                  /\ UNCHANGED <<clock, allArticles, returned, aggregated>>
             ELSE /\ ReturnError(ans.message)
                  /\ UNCHANGED <<linkObjects, results>>
    /\ UNCHANGED <<mode, clsVars, doc, baseUrl, selIdx, elIdx, foundLinks,
                   keyword, sortBy, engine,
                   targetUrl, apc, aidx, alinks, aout, outOfOrder>>

\* lines 136-153: one iteration of the loop over linkObjects
DynCandidate ==
    /\ mode = "run" /\ pc = "dynLoop" /\ Len(results) < Len(linkObjects)
    /\ LET linkObj == linkObjects[Len(results) + 1]
           siteName == Hostname(targetUrl)
           r == scrapeArticleDetails(linkObj.url, linkObj.title, siteName)
       IN results' = Append(results, IF r.threw THEN DegradedRecord(linkObj, siteName)
                                     ELSE r.value)
    /\ UNCHANGED <<mode, clsVars, discVars, callVars,
                   targetUrl, web, clock, pc, aggregated, apc, aidx, alinks, aout,
                   outOfOrder>>

\* line 155, then the continuation of scrapeNews
DynReturn ==
    /\ mode = "run" /\ pc = "dynLoop" /\ Len(results) = Len(linkObjects)
    /\ ReturnArticles(results)
    /\ UNCHANGED <<mode, clsVars, discVars, keyword, sortBy, engine,
                   targetUrl, web, clock, apc, aidx, alinks, aout, outOfOrder, results>>

\* a rejection is propagated (AggregateReject) before any other response is handled
NoneFailed == \A b \in AdapterSet : apc[b] # "failed"

\* outOfOrder once adapter a settles
Settles(a) ==
    \/ outOfOrder
    \/ \E i, j \in 1..Len(Adapters) :
          i < j /\ Adapters[j] = a /\ apc[Adapters[i]] \notin {"done", "failed"}

\* scrapeBBC, scrapeVerge, scrapeCNN: the listing page is answered (no try
\* encloses the GET of lines 244, 293, 337: a failure rejects the adapter)
AdapterListing(a) ==
    /\ mode = "run" /\ pc = "adapters" /\ apc[a] = "listing" /\ NoneFailed
    /\ \E ans \in Answers(Sites[a].home, HomeOutcomes(a)) :
          /\ web' = Learn(Sites[a].home, ans)
          /\ IF ~ans.ok
             THEN /\ apc' = [apc EXCEPT ![a] = "failed"]
                  /\ outOfOrder' = Settles(a)
                  /\ UNCHANGED <<aidx, alinks>>
             ELSE LET articleLinks == CollectLinks(Sites[a], ans.body, <<>>)
                  IN /\ alinks' = [alinks EXCEPT ![a] = articleLinks]
                     /\ IF articleLinks = <<>>
                        THEN /\ apc' = [apc EXCEPT ![a] = "done"]
                             /\ outOfOrder' = Settles(a)
                             /\ UNCHANGED aidx
                        ELSE /\ apc' = [apc EXCEPT ![a] = "fetching"]
                             /\ aidx' = [aidx EXCEPT ![a] = 1]
                             /\ UNCHANGED outOfOrder
    /\ UNCHANGED <<mode, clsVars, discVars, callVars, targetUrl, clock, pc, aggregated,
                   aout, results>>

\* the article page awaited by adapter a is answered (a failure is logged and
\* the link skipped); after the last link the adapter returns
AdapterArticle(a) ==
    /\ mode = "run" /\ pc = "adapters" /\ apc[a] = "fetching" /\ NoneFailed
    /\ LET link == alinks[a][aidx[a]]
       IN \E ans \in Answers(link, ArticleOutcomes(a, link)) :
             /\ web' = Learn(link, ans)
             /\ aout' = IF ans.ok
                        THEN [aout EXCEPT ![a] = Append(@, AdapterRecord(Sites[a], link, ans.body))]
                        ELSE aout
    /\ IF aidx[a] = Len(alinks[a])
       THEN /\ apc' = [apc EXCEPT ![a] = "done"]
            /\ outOfOrder' = Settles(a)
            /\ UNCHANGED aidx
       ELSE /\ aidx' = [aidx EXCEPT ![a] = @ + 1]
            /\ UNCHANGED <<apc, outOfOrder>>
    /\ UNCHANGED <<mode, clsVars, discVars, callVars, targetUrl, clock, pc, aggregated,
                   alinks, results>>

\* scrapeHackerNews: the listing page is answered
HackerListing ==
    /\ mode = "run" /\ pc = "adapters" /\ apc["hacker"] = "listing" /\ NoneFailed
    /\ \E ans \in Answers(Sites["hacker"].home, HomeOutcomes("hacker")) :
          /\ web' = Learn(Sites["hacker"].home, ans)
          /\ IF ~ans.ok
             THEN /\ apc' = [apc EXCEPT !["hacker"] = "failed"]
                  /\ UNCHANGED aout
             ELSE /\ apc' = [apc EXCEPT !["hacker"] = "done"]
                  /\ aout' = [aout EXCEPT !["hacker"] =
                                 HackerNews(ans.body, Sites["hacker"].home)]
    /\ outOfOrder' = Settles("hacker")
    /\ UNCHANGED <<mode, clsVars, discVars, callVars, targetUrl, clock, pc, aggregated,
                   aidx, alinks, results>>

\* Promise.all resolves: line 32, then lines 35-72
AggregateResolve ==
    /\ mode = "run" /\ pc = "adapters"
    /\ \A a \in AdapterSet : apc[a] = "done"
    /\ ReturnArticles(ConcatAdapters(aout))
    /\ UNCHANGED <<mode, clsVars, discVars, keyword, sortBy, engine,
                   targetUrl, web, clock, apc, aidx, alinks, aout, outOfOrder, results>>

\* Promise.all rejects with the rejection of an adapter, and so does scrapeNews
AggregateReject ==
    /\ mode = "run" /\ pc = "adapters"
    /\ \E a \in AdapterSet :
          /\ apc[a] = "failed"
          /\ returned' = Append(returned, Throws(web[Sites[a].home].message))
    /\ pc' = "ended"
    /\ UNCHANGED <<mode, clsVars, discVars, keyword, sortBy, engine, allArticles,
                   targetUrl, web, clock, aggregated, apc, aidx, alinks, aout,
                   outOfOrder, results>>

Next ==
    \/ CallDefault \/ CallDynamic
    \/ DynArticle \/ DynListing \/ DynCandidate \/ DynReturn
    \/ \E a \in ArticleAdapters : AdapterListing(a)
    \/ \E a \in ArticleAdapters : AdapterArticle(a)
    \/ HackerListing
    \/ AggregateResolve \/ AggregateReject

Spec == Init /\ [][Next]_vars

(***************************************************************************)
(* Specification SpecTwice: the same call made again, against the same     *)
(* fetch capability                                                        *)
(***************************************************************************)
MaxCalls == 2

\* the caller calls scrapeNews again with the same arguments
CallAgain ==
    /\ mode = "run" /\ pc = "ended" /\ Len(returned) < MaxCalls
    /\ pc' = "idle"
    /\ allArticles' = <<>> /\ aggregated' = <<>> /\ results' = <<>> /\ linkObjects' = <<>>
    /\ apc' = [a \in AdapterSet |-> "idle"]
    /\ aidx' = [a \in AdapterSet |-> 0]
    /\ alinks' = [a \in AdapterSet |-> <<>>]
    /\ aout' = [a \in AdapterSet |-> <<>>]
    /\ outOfOrder' = FALSE
    /\ UNCHANGED <<mode, clsVars, doc, baseUrl, selIdx, elIdx, foundLinks,
                   keyword, sortBy, engine, returned, targetUrl, web, clock>>

TwiceNext == Next \/ CallAgain
SpecTwice == Init /\ [][TwiceNext]_vars

(***************************************************************************)
(* C7: link discovery is bounded and filters "mailto" and "tag"            *)
(***************************************************************************)
\* C7, as stated: link discovery returns at most 8 entries, and no returned
\* (resolved) URL contains "mailto" or "tag".
C7_AsStated ==
    DiscoverDone =>
        /\ Len(linkObjects) <= 8
        /\ \A i \in 1..Len(linkObjects) :
              /\ ~Includes(linkObjects[i].url, "mailto")
              /\ ~Includes(linkObjects[i].url, "tag")

\* the entry is built from an anchor of the document whose href attribute
\* contains neither "mailto" nor "tag"
FromCleanAnchor(e) ==
    \E j \in 1..Len(doc) :
        LET a == doc[j]
        IN /\ a.href # NoHref
           /\ ~Includes(a.href, "mailto") /\ ~Includes(a.href, "tag")
           /\ e.title = Trim(a.text)
           /\ e.url = IF StartsWith(a.href, "http") THEN a.href
                      ELSE Resolve(a.href, baseUrl)

\* C7, amended: link discovery returns at most 8 entries, and every returned
\* entry is built from an anchor whose href attribute, as written in the
\* document (before resolution against the base URL), contains neither
\* "mailto" nor "tag".
C7_Amended ==
    DiscoverDone =>
        /\ Len(linkObjects) <= 8
        /\ \A i \in 1..Len(linkObjects) : FromCleanAnchor(linkObjects[i])

\* the caps act (10 raw candidates, 8 returned), the document holds a "tag"
\* and a "mailto" anchor, and the base URL itself contains "tag"
C7_Witness ==
    /\ DiscoverDone
    /\ Len(foundLinks) = 10 /\ Len(linkObjects) = 8
    /\ Includes(baseUrl, "tag")
    /\ \E j \in 1..Len(doc) : Includes(doc[j].href, "mailto")
    /\ \E j \in 1..Len(doc) : Includes(doc[j].href, "/tag/")
    /\ \E i \in 1..Len(linkObjects) : Includes(linkObjects[i].url, "tag")

(***************************************************************************)
(* C8: the URL classifier                                                  *)
(***************************************************************************)
\* segment i of the input path is followed by a "/"
SlashAfter(i) == i < Len(clsSegs) \/ clsTrail

IsTwoDigits(s) == Len(s) = 2 /\ IsDigit(Ch(s, 1)) /\ IsDigit(Ch(s, 2))

\* segments i, i+1, i+2 are <prefix>d, dd, dd and a "/" follows
DatedAt(i, prefix) ==
    /\ i + 2 <= Len(clsSegs)
    /\ Len(clsSegs[i]) = Len(prefix) + 1
    /\ StartsWith(clsSegs[i], prefix)
    /\ IsDigit(Ch(clsSegs[i], Len(clsSegs[i])))
    /\ IsTwoDigits(clsSegs[i + 1]) /\ IsTwoDigits(clsSegs[i + 2])
    /\ SlashAfter(i + 2)

Classified == mode = "classify" /\ clsResult \in {"ArticleLike", "ListingLike"}

Sorted == mode = "sort" /\ returned # <<>>

\* the array handed to allArticles.sort, and the array returned
sortInput == FilterByKeyword(allArticles, keyword)
sortOutput == returned[1].value

Occurrences(arr, r) == Cardinality({i \in 1..Len(arr) : arr[i] = r})
IsPermutation(a, b) ==
    Len(a) = Len(b) /\ \A i \in 1..Len(a) : Occurrences(a, a[i]) = Occurrences(b, a[i])

Unparseable(r) == DateValue(r.publicationDate) = NaN

\* C6, as stated: with sortBy = "date" the output is a permutation of the input
\* with the records of parseable date first, in descending date order, and the
\* records of unparseable date after them in their original relative order.
C6_AsStated ==
    (Sorted /\ sortBy = "date") =>
        /\ IsPermutation(sortInput, sortOutput)
        /\ \A i, j \in 1..Len(sortOutput) :
              (i < j /\ ~Unparseable(sortOutput[j])) =>
                  /\ ~Unparseable(sortOutput[i])
                  /\ DateValue(sortOutput[i].publicationDate)
                        >= DateValue(sortOutput[j].publicationDate)
        /\ SelectSeq(sortOutput, Unparseable) = SelectSeq(sortInput, Unparseable)

HasKeywordInTitle(r) == Includes(ToLower(r.title), ToLower(keyword))
LacksKeywordInTitle(r) == ~HasKeywordInTitle(r)

Ended == mode = "run" /\ pc = "ended"
LastCall == returned[Len(returned)]

\* a field that is missing (undefined) or the empty string
Empty(v) == v = "" \/ v = NoHref

\* C1: every record a call returns has a non-empty title, author,
\* publicationDate, source and link.
C1_AsStated ==
    Ended =>
        \A i \in 1..Len(LastCall.value) :
            LET r == LastCall.value[i]
            IN /\ ~Empty(r.title) /\ ~Empty(r.author) /\ ~Empty(r.publicationDate)
               /\ ~Empty(r.source) /\ ~Empty(r.link)

FetchFailed(url) == url \in DOMAIN web /\ ~web[url].ok
FetchSucceeded(url) == url \in DOMAIN web /\ web[url].ok

ListingTarget == targetUrl # "" /\ ValidUrl(targetUrl) /\ ~isLikelyArticleUrl(targetUrl)
ArticleTarget == targetUrl # "" /\ ValidUrl(targetUrl) /\ isLikelyArticleUrl(targetUrl)

\* C2: when the fetch of a listing-like targetUrl fails, the call returns,
\* without raising, exactly one record, of source "Error" and with a
\* populated error field, whatever the keyword and sortBy.
C2_AsStated ==
    (Ended /\ ListingTarget /\ FetchFailed(targetUrl)) =>
        /\ ~LastCall.threw
        /\ Len(LastCall.value) = 1
        /\ LastCall.value[1].source = "Error"
        /\ LastCall.value[1].error # ""

\* the records adapter a returns, from the answers the capability gave:
\* nothing when its listing page failed
RECURSIVE RecordsOf(_, _)
RecordsOf(a, links) ==
    IF links = <<>> THEN <<>>
    ELSE (IF FetchSucceeded(Head(links))
          THEN <<AdapterRecord(Sites[a], Head(links), web[Head(links)].body)>>
          ELSE <<>>) \o RecordsOf(a, Tail(links))

AdapterResult(a) ==
    IF ~FetchSucceeded(Sites[a].home) THEN <<>>
    ELSE IF a = "hacker" THEN HackerNews(web[Sites[a].home].body, Sites[a].home)
    ELSE RecordsOf(a, CollectLinks(Sites[a], web[Sites[a].home].body, <<>>))

\* C3: with an empty targetUrl the call completes without raising, whichever
\* adapters failed, and returns the records of the adapters that did not.
C3_AsStated ==
    (Ended /\ targetUrl = "") =>
        /\ ~LastCall.threw
        /\ LastCall.value =
              FilterAndSort(engine,
                  AdapterResult("bbc") \o AdapterResult("verge")
                  \o AdapterResult("cnn") \o AdapterResult("hacker"),
                  keyword, sortBy)

\* the record the field extractor owes for url, given the page fetched
Extracted(url, fallbackTitle) ==
    ExtractFields(web[url].body, url, fallbackTitle, Hostname(targetUrl))

\* C4: a record emitted for a URL whose article page was fetched successfully
\* has the fields the fallback chains give; the degraded record and the
\* "Error" record are emitted only when the fetch of that page failed.
C4_AsStated ==
    /\ (Ended /\ ArticleTarget) =>
          /\ FetchSucceeded(targetUrl) =>
                aggregated = <<Extracted(targetUrl, "Single Article")>>
          /\ aggregated[1].source = "Error" => FetchFailed(targetUrl)
    /\ (Ended /\ ListingTarget /\ FetchSucceeded(targetUrl)) =>
          \A i \in 1..Len(aggregated) :
              LET linkObj == linkObjects[i]
              IN /\ FetchSucceeded(linkObj.url) =>
                       aggregated[i] = Extracted(linkObj.url, linkObj.title)
                 /\ aggregated[i] = DegradedRecord(linkObj, Hostname(targetUrl)) =>
                       FetchFailed(linkObj.url)

\* C5: two calls with the same arguments, against a capability that answers
\* every URL the same way, have the same outcome.
C5_AsStated ==
    (mode = "run" /\ Len(returned) >= 2) => returned[1] = returned[2]

\* C9: the aggregate (before filter and sort) is the concatenation of the
\* adapters' results in the order BBC, Verge, CNN, Hacker News, whatever the
\* order they finished in; in the dynamic listing path the i-th record is the
\* one of the i-th discovered candidate.
C9_OrderIndependent ==
    /\ (Ended /\ targetUrl = "" /\ ~LastCall.threw) =>
          aggregated = AdapterResult("bbc") \o AdapterResult("verge")
                       \o AdapterResult("cnn") \o AdapterResult("hacker")
    /\ (Ended /\ ListingTarget /\ FetchSucceeded(targetUrl)) =>
          /\ Len(aggregated) = Len(Discover(web[targetUrl].body, Origin(targetUrl)))
          /\ \A i \in 1..Len(aggregated) :
                /\ aggregated[i].link =
                      Discover(web[targetUrl].body, Origin(targetUrl))[i].url
                /\ aggregated[i].title =
                      Discover(web[targetUrl].body, Origin(targetUrl))[i].title

\* the four adapters all returned records, having settled out of array order
C9_Witness ==
    /\ Ended /\ targetUrl = "" /\ ~LastCall.threw
    /\ outOfOrder
    /\ \A a \in AdapterSet : aout[a] # <<>>
    /\ Len(aggregated) = Len(Adapters)

====
